---- MODULE Spec2Model ----
(***************************************************************************)
(* Model of renan-campos/sound-utils, package audiostream: the RingBuffer  *)
(* (pkg/audiostream/ringbuffer.go) and the AudioStream controller with its *)
(* two datamover goroutines.                                               *)
(*                                                                         *)
(* The ring buffer is modelled as step operators over a buffer record and  *)
(* the call frame of the goroutine executing Write or ReadNoBlock.  One    *)
(* step is one access to shared state (a channel operation, the mutex, one *)
(* byte of the store).  A call made by a single thread is the run of these *)
(* steps to completion, or to the point where the call blocks or panics.   *)
(***************************************************************************)
EXTENDS Integers, Sequences, FiniteSets, TLC

\* The ring buffer on its own: the buffer, the frame of the goroutine in
\* Write, the frame of the goroutine in ReadNoBlock, and what the callers saw.
VARIABLES rb, wr, rd, hist
\* The AudioStream: the object, the ALSA device and the WAV encoder it drives,
\* the frame of the goroutine calling its methods, the datamover goroutines
\* and ring buffer of each activation, the calls made so far, and whether
\* the process is still running.
VARIABLES stream, dev, enc, ctl, dm, fm, bufs, clog, proc

ringVars == <<rb, wr, rd, hist>>
streamVars == <<stream, dev, enc, ctl, dm, fm, bufs, clog, proc>>
vars == <<rb, wr, rd, hist, stream, dev, enc, ctl, dm, fm, bufs, clog, proc>>

\* ------------------------------------------------------------------ bounds
\* Number of Write/ReadNoBlock calls explored by the sequential specification.
MaxOps == 7
\* Number of Write calls and of ReadNoBlock calls explored by the concurrent
\* specification.
MaxConcWrites == 4
MaxConcReads == 3
\* Number of AudioStream method calls explored, and number of times the
\* stream is taken from off to standby.
MaxCtlOps == 4
MaxActivations == 2
\* Number of the calls that may be SetDevice or SetFileName.
MaxConfigOps == 3
\* Number of frame buffers the device hands out in all.
MaxFrames == 4

\* RingBufferSpec values explored: DataSize, WriteSize, ReadSize.
RBSpec(c, w, r) == [DataSize |-> c, WriteSize |-> w, ReadSize |-> r]
SeqGeometries == {RBSpec(4, 2, 2), RBSpec(4, 1, 2), RBSpec(8, 2, 4), RBSpec(16, 2, 4)}
ConcGeometries == {RBSpec(4, 2, 2), RBSpec(4, 1, 2)}

\* ------------------------------------------------------------- ring buffer
Zeros(n) == [i \in 1..n |-> 0]

\* The byte store is data[1..DataSize]; the code's index k is data[k + 1].
\* rSem and wSem are the number of elements queued in the buffered channels,
\* rCap and wCap their capacities.  rLock is the holder of the mutex.
NewRingBuffer(spec) ==
  [data      |-> Zeros(spec.DataSize),
   writeIdx  |-> 0,
   readIdx   |-> 0,
   writeSize |-> spec.WriteSize,
   readSize  |-> spec.ReadSize,
   rSem      |-> 0,
   rCap      |-> spec.DataSize \div spec.ReadSize,
   wSem      |-> 0,
   wCap      |-> spec.DataSize \div spec.WriteSize,
   rLock     |-> "free"]

IdleWriter == [pc |-> "idle", buff |-> <<>>, i |-> 0, ovf |-> FALSE]
IdleReader == [pc |-> "idle", buff |-> <<>>, i |-> 0, ok |-> FALSE]

\* ---- Write
\* Entry of Write(buff): the goroutine is about to send on wSem.
WriteCall(buff) == [pc |-> "acquire", buff |-> buff, i |-> 0, ovf |-> FALSE]

\* Position after the range loop over buff: the padding loop if it has
\* iterations, else the read-permit test.
WriteAfterCopy(b, buff) ==
  IF b.writeSize - Len(buff) > 0 THEN "pad" ELSE "signal"

\* Variant of WriteEnabled: the send on wSem never waits.
WriteEnabledNoPermit(b, f) ==
  CASE f.pc = "acquire"  -> TRUE
    [] f.pc = "copy"     -> TRUE
    [] f.pc = "pad"      -> TRUE
    [] f.pc = "signal"   -> (b.writeIdx % b.readSize = 0) => (b.rSem < b.rCap)
    [] f.pc = "lock"     -> b.rLock = "free"
    [] f.pc = "withdraw" -> b.rSem > 0
    [] OTHER             -> FALSE

\* Can the goroutine executing Write take its next step?
WriteEnabled(b, f) ==
  CASE f.pc = "acquire"  -> b.wSem < b.wCap
    [] f.pc = "copy"     -> TRUE
    [] f.pc = "pad"      -> TRUE
    [] f.pc = "signal"   -> (b.writeIdx % b.readSize = 0) => (b.rSem < b.rCap)
    [] f.pc = "lock"     -> b.rLock = "free"
    [] f.pc = "withdraw" -> b.rSem > 0
    [] OTHER             -> FALSE

\* Variant of WriteAcquire: buff is not cut to writeSize.
WriteAcquireNoTruncate(b, f) ==
  [rb |-> [b EXCEPT !.wSem = @ + 1],
   fr |-> [f EXCEPT !.i = 0,
                    !.pc = IF Len(f.buff) > 0 THEN "copy"
                           ELSE WriteAfterCopy(b, f.buff)]]

\* ringbuffer.go:37-41: send on wSem, then cut buff to writeSize.
WriteAcquire(b, f) ==
  LET buff == IF Len(f.buff) > b.writeSize
              THEN SubSeq(f.buff, 1, b.writeSize) ELSE f.buff
  IN [rb |-> [b EXCEPT !.wSem = @ + 1],
      fr |-> [f EXCEPT !.buff = buff, !.i = 0,
                       !.pc = IF Len(buff) > 0 THEN "copy"
                              ELSE WriteAfterCopy(b, buff)]]

\* ringbuffer.go:42-45: one iteration of the loop that stores buff.
WriteCopy(b, f) ==
  IF b.writeIdx >= Len(b.data)
  THEN [rb |-> b, fr |-> [f EXCEPT !.pc = "panic"]]
  ELSE [rb |-> [b EXCEPT !.data[b.writeIdx + 1] = f.buff[f.i + 1],
                         !.writeIdx = @ + 1],
        fr |-> [f EXCEPT !.i = IF f.i + 1 < Len(f.buff) THEN f.i + 1 ELSE 0,
                         !.pc = IF f.i + 1 < Len(f.buff) THEN "copy"
                                ELSE WriteAfterCopy(b, f.buff)]]

\* ringbuffer.go:46-49: one iteration of the loop that stores the padding.
WritePad(b, f) ==
  IF b.writeIdx >= Len(b.data)
  THEN [rb |-> b, fr |-> [f EXCEPT !.pc = "panic"]]
  ELSE [rb |-> [b EXCEPT !.data[b.writeIdx + 1] = 0,
                         !.writeIdx = @ + 1],
        fr |-> [f EXCEPT !.i = IF f.i + 1 < b.writeSize - Len(f.buff)
                               THEN f.i + 1 ELSE 0,
                         !.pc = IF f.i + 1 < b.writeSize - Len(f.buff)
                                THEN "pad" ELSE "signal"]]

\* Variant of WriteSignal: a read permit only when the store has been filled.
WriteSignalOnWrap(b, f) ==
  LET sem == IF b.writeIdx % Len(b.data) = 0 THEN b.rSem + 1 ELSE b.rSem
      idx == IF b.writeIdx = Len(b.data) THEN 0 ELSE b.writeIdx
  IN [rb |-> [b EXCEPT !.rSem = sem, !.writeIdx = idx],
      fr |-> [f EXCEPT !.pc = "lock"]]

\* ringbuffer.go:50-55: a read permit when the write cursor is on a multiple
\* of readSize, then the wrap of the write cursor.
WriteSignal(b, f) ==
  LET sem == IF b.writeIdx % b.readSize = 0 THEN b.rSem + 1 ELSE b.rSem
      idx == IF b.writeIdx = Len(b.data) THEN 0 ELSE b.writeIdx
  IN [rb |-> [b EXCEPT !.rSem = sem, !.writeIdx = idx],
      fr |-> [f EXCEPT !.pc = "lock"]]

\* Variant of WriteLock: the read cursor moved up by a write chunk.
WriteLockAdvanceWriteSize(b, f) ==
  IF b.writeIdx = b.readIdx
  THEN [rb |-> [b EXCEPT !.rLock = "writer", !.readIdx = @ + b.writeSize],
        fr |-> [f EXCEPT !.pc = "withdraw", !.ovf = TRUE]]
  ELSE [rb |-> b, fr |-> [f EXCEPT !.pc = "idle"]]

\* ringbuffer.go:59-62: take rLock and compare the cursors.  When they differ
\* Write returns and the deferred Unlock runs; when they are equal the read
\* cursor is moved up and the goroutine goes on, holding rLock, to line 63.
WriteLock(b, f) ==
  IF b.writeIdx = b.readIdx
  THEN [rb |-> [b EXCEPT !.rLock = "writer", !.readIdx = @ + b.readSize],
        fr |-> [f EXCEPT !.pc = "withdraw", !.ovf = TRUE]]
  ELSE [rb |-> b, fr |-> [f EXCEPT !.pc = "idle"]]

\* Variant of WriteWithdraw: the read cursor moved up with no receive from
\* rSem.
WriteWithdrawKeepsPermit(b, f) ==
  [rb |-> [b EXCEPT !.rLock = "free"],
   fr |-> [f EXCEPT !.pc = "idle"]]

\* ringbuffer.go:63-65: receive from rSem, return, deferred Unlock.
WriteWithdraw(b, f) ==
  [rb |-> [b EXCEPT !.rSem = @ - 1, !.rLock = "free"],
   fr |-> [f EXCEPT !.pc = "idle"]]

\* One step of Write.  The result is the buffer and the frame after the step.
WriteStep(b, f) ==
  CASE f.pc = "acquire"  -> WriteAcquire(b, f)
    [] f.pc = "copy"     -> WriteCopy(b, f)
    [] f.pc = "pad"      -> WritePad(b, f)
    [] f.pc = "signal"   -> WriteSignal(b, f)
    [] f.pc = "lock"     -> WriteLock(b, f)
    [] f.pc = "withdraw" -> WriteWithdraw(b, f)

\* ---- ReadNoBlock
\* Entry of ReadNoBlock(): buff is allocated, the goroutine is at the select.
ReadCall(b) == [pc |-> "select", buff |-> Zeros(b.readSize), i |-> 0, ok |-> FALSE]

\* Position after one iteration of the copy loop that left the loop index at i.
ReadAfterByte(b, i) == IF i < b.readSize THEN "copy" ELSE "finish"

\* Variant of ReadEnabled: a receive from rSem without the default case.
ReadEnabledBlockingSelect(b, f) ==
  CASE f.pc = "select"  -> b.rSem > 0
    [] f.pc = "lock"    -> b.rLock = "free"
    [] f.pc = "copy"    -> TRUE
    [] f.pc = "release" -> b.wSem > 0
    [] f.pc = "finish"  -> TRUE
    [] OTHER            -> FALSE

\* Can the goroutine executing ReadNoBlock take its next step?
ReadEnabled(b, f) ==
  CASE f.pc = "select"  -> TRUE
    [] f.pc = "lock"    -> b.rLock = "free"
    [] f.pc = "copy"    -> TRUE
    [] f.pc = "release" -> b.wSem > 0
    [] f.pc = "finish"  -> TRUE
    [] OTHER            -> FALSE

\* Variant of ReadSelect: a default case that falls through to the copy.
ReadSelectNoPermit(b, f) ==
  IF b.rSem > 0
  THEN [rb |-> [b EXCEPT !.rSem = @ - 1], fr |-> [f EXCEPT !.pc = "lock"]]
  ELSE [rb |-> b, fr |-> [f EXCEPT !.pc = "lock"]]

\* ringbuffer.go:70-76: the select on rSem with a default case.
ReadSelect(b, f) ==
  IF b.rSem > 0
  THEN [rb |-> [b EXCEPT !.rSem = @ - 1], fr |-> [f EXCEPT !.pc = "lock"]]
  ELSE [rb |-> b, fr |-> [f EXCEPT !.pc = "idle", !.ok = FALSE]]

\* ringbuffer.go:72: rLock.Lock() inside the rSem case.
ReadLock(b, f) ==
  [rb |-> [b EXCEPT !.rLock = "reader"],
   fr |-> [f EXCEPT !.pc = ReadAfterByte(b, 0)]]

\* ringbuffer.go:78-81: one byte out of the store, the read cursor moved.
ReadCopy(b, f) ==
  IF b.readIdx >= Len(b.data)
  THEN [rb |-> b, fr |-> [f EXCEPT !.pc = "panic"]]
  ELSE [rb |-> [b EXCEPT !.readIdx = @ + 1],
        fr |-> [f EXCEPT !.buff[f.i + 1] = b.data[b.readIdx + 1],
                         !.i = @ + 1,
                         !.pc = IF (b.readIdx + 1) % b.writeSize = 0
                                THEN "release"
                                ELSE ReadAfterByte(b, f.i + 1)]]

\* ringbuffer.go:82: receive from wSem.
ReadRelease(b, f) ==
  [rb |-> [b EXCEPT !.wSem = @ - 1],
   fr |-> [f EXCEPT !.pc = ReadAfterByte(b, f.i)]]

\* ringbuffer.go:86-90: wrap of the read cursor, return, deferred Unlock.
ReadFinish(b, f) ==
  [rb |-> [b EXCEPT !.readIdx = IF @ = Len(b.data) THEN 0 ELSE @,
                    !.rLock = "free"],
   fr |-> [f EXCEPT !.pc = "idle", !.ok = TRUE]]

\* One step of ReadNoBlock.
ReadStep(b, f) ==
  CASE f.pc = "select"  -> ReadSelect(b, f)
    [] f.pc = "lock"    -> ReadLock(b, f)
    [] f.pc = "copy"    -> ReadCopy(b, f)
    [] f.pc = "release" -> ReadRelease(b, f)
    [] f.pc = "finish"  -> ReadFinish(b, f)

\* ---- a call executed with no other goroutine running
RECURSIVE RunWrite(_, _)
RunWrite(b, f) ==
  IF WriteEnabled(b, f)
  THEN LET s == WriteStep(b, f) IN RunWrite(s.rb, s.fr)
  ELSE [rb |-> b, fr |-> f]

RECURSIVE RunRead(_, _)
RunRead(b, f) ==
  IF ReadEnabled(b, f)
  THEN LET s == ReadStep(b, f) IN RunRead(s.rb, s.fr)
  ELSE [rb |-> b, fr |-> f]

Write(b, buff) == RunWrite(b, WriteCall(buff))
ReadNoBlock(b) == RunRead(b, ReadCall(b))

\* ------------------------------------------------------------ AudioStream
statusRecording == "recording"
statusStandby   == "standby"
statusOff       == "off"
statusError     == "error"

\* len(frameBuffer.Data), the bytes of the device's two-second frame buffer,
\* in units of one frame buffer.
FrameBufferSize == 1

NoDevice == "nil"
Devices == {"hw0", "hw1"}
ZeroConfig == [NumChannels |-> 0, FrameRate |-> 0, FrameFormat |-> 0, BufferSize |-> 0]
Configs == {[NumChannels |-> 1, FrameRate |-> 44100, FrameFormat |-> 2, BufferSize |-> 8192]}
FileNames == {"a.wav"}

NewAudioStream ==
  [device       |-> NoDevice,
   deviceConfig |-> ZeroConfig,
   fileName     |-> "",
   status       |-> statusOff,
   fmStatus     |-> <<>>,
   dmStatus     |-> <<>>,
   fmDone       |-> 0,
   dmDone       |-> 0]

\* Capacity of fmStatus, dmStatus, fmDone and dmDone.
ChanCap == 1

\* The ring buffer of an activation.
setupBuffers ==
  NewRingBuffer(RBSpec(FrameBufferSize * 20, FrameBufferSize, FrameBufferSize * 4))

\* What one device has been asked: opens, closes and reads count Open(),
\* Close() and Read(), negotiated is what the Negotiate calls were given,
\* and readClosed tells that Read() was called while the device was closed.
NoError == "none"
NewDevice ==
  [open |-> FALSE, opens |-> 0, closes |-> 0, reads |-> 0,
   negotiated |-> ZeroConfig, readClosed |-> FALSE]

\* The devices, each with its own state (hw), and the outcome of the calls
\* of startDevice: failed is the device call that returned an error in the
\* last startDevice, failedBefore the same for the startDevice before it.
NewDevices ==
  [hw |-> [d \in Devices |-> NewDevice],
   failed |-> NoError, failedBefore |-> NoError]

\* The device a.device points to; the nil device has never been opened.
Device == IF stream.device = NoDevice THEN NewDevice ELSE dev.hw[stream.device]

RECURSIVE SumOver(_, _)
SumOver(f, S) ==
  IF S = {} THEN 0
  ELSE LET x == CHOOSE y \in S : TRUE IN f[x] + SumOver(f, S \ {x})

\* Calls of Open() that succeeded, of Close() and of Read(), on any device.
Opens  == SumOver([d \in Devices |-> dev.hw[d].opens], Devices)
Closes == SumOver([d \in Devices |-> dev.hw[d].closes], Devices)
Reads  == SumOver([d \in Devices |-> dev.hw[d].reads], Devices)

\* The encoders: how many were created and closed, and whether a chunk was
\* written.
NewEncoderState == [created |-> 0, closed |-> 0, written |-> FALSE]

IdleCtl == [op |-> "none", pc |-> "idle", err |-> FALSE]

\* A datamover goroutine: not started ("none"), in its loop, or returned
\* ("exited"); recording and die are its two locals, fr the frame of its
\* call into the ring buffer.
NoDataMover == [pc |-> "none", recording |-> FALSE, die |-> FALSE, fr |-> IdleWriter]
NoFileMover == [pc |-> "none", recording |-> FALSE, die |-> FALSE, fr |-> IdleReader]

Activations == 1..MaxActivations
\* Number of activations so far: the goroutines started.
Started == Cardinality({g \in Activations : dm[g].pc # "none"})

StreamStart ==
  /\ stream = NewAudioStream
  /\ dev = NewDevices
  /\ enc = NewEncoderState
  /\ ctl = IdleCtl
  /\ dm = [g \in Activations |-> NoDataMover]
  /\ fm = [g \in Activations |-> NoFileMover]
  /\ bufs = [g \in Activations |-> setupBuffers]
  /\ clog = <<>>
  /\ proc = "running"

RingStart ==
  /\ rb = NewRingBuffer(RBSpec(4, 2, 2))
  /\ wr = IdleWriter
  /\ rd = IdleReader
  /\ hist = <<>>

CallEvent(op) == [op |-> op, status |-> stream.status]

\* A method may be called when the previous one has returned.
Returned ==
  /\ proc = "running"
  /\ ctl.pc = "idle"

\* clog is the calls made so far, each with the status it found.
CanCallStream ==
  /\ Returned
  /\ Len(clog) < MaxCtlOps

\* ---- SetDevice, SetFileName
\* A SetDevice without its test of the status.
SetDeviceAnyStatus(a) == FALSE

SetDeviceFails(a) == a.status # statusOff
SetDeviceResult(a, device, config) ==
  IF SetDeviceFails(a) THEN a ELSE [a EXCEPT !.device = device]

SetDevice ==
  /\ Returned
  /\ Len(clog) < MaxConfigOps
  /\ \E d \in Devices, c \in Configs :
       /\ stream' = SetDeviceResult(stream, d, c)
       /\ ctl' = [op |-> "SetDevice", pc |-> "idle", err |-> SetDeviceFails(stream)]
  /\ clog' = Append(clog, CallEvent("SetDevice"))
  /\ UNCHANGED <<dev, enc, dm, fm, bufs, proc>>

SetFileNameFails(a) == a.status # statusStandby \/ a.status # statusOff
SetFileNameResult(a, fileName) ==
  IF SetFileNameFails(a) THEN a ELSE [a EXCEPT !.fileName = fileName]

SetFileName ==
  /\ Returned
  /\ Len(clog) < MaxConfigOps
  /\ \E n \in FileNames :
       /\ stream' = SetFileNameResult(stream, n)
       /\ ctl' = [op |-> "SetFileName", pc |-> "idle", err |-> SetFileNameFails(stream)]
  /\ clog' = Append(clog, CallEvent("SetFileName"))
  /\ UNCHANGED <<dev, enc, dm, fm, bufs, proc>>

\* ---- startDevice
\* The calls of startDevice in order; it returns at the first that fails.
DeviceCalls == <<"Open", "NegotiateChannels", "NegotiateRate", "NegotiateFormat",
                 "NegotiateBufferSize", "Prepare">>
\* The call of startDevice that follows call.
NextDeviceCall(call) ==
  LET k == CHOOSE i \in 1..Len(DeviceCalls) : DeviceCalls[i] = call
  IN IF k < Len(DeviceCalls) THEN DeviceCalls[k + 1] ELSE "return"

\* The device d after one call of startDevice, which succeeded (ok) or
\* returned an error.
DeviceCall(d, config, call, ok) ==
  IF ~ok THEN d
  ELSE CASE call = "Open" -> [d EXCEPT !.open = TRUE, !.opens = @ + 1]
         [] call = "NegotiateChannels" ->
              [d EXCEPT !.negotiated.NumChannels = config.NumChannels]
         [] call = "NegotiateRate" ->
              [d EXCEPT !.negotiated.FrameRate = config.FrameRate]
         [] call = "NegotiateFormat" ->
              [d EXCEPT !.negotiated.FrameFormat = config.FrameFormat]
         [] call = "NegotiateBufferSize" ->
              [d EXCEPT !.negotiated.BufferSize = config.BufferSize]
         [] OTHER -> d

\* Standby() that returns an error whatever startDevice returned.
startDeviceAlwaysFails(err) == TRUE

\* Standby() that goes on after a failed startDevice.
startDeviceErrorIgnored(err) == FALSE

\* if err := a.startDevice(); err != nil
startDeviceFails(err) == err # NoError

\* Position of the caller of Standby() after a device call of startDevice
\* that returned err: the next call, or, when startDevice has returned, the
\* return of its error or setupBuffers.
AfterDeviceCall(c, err) ==
  IF err = NoError /\ NextDeviceCall(c.pc) # "return"
  THEN [c EXCEPT !.pc = NextDeviceCall(c.pc)]
  ELSE IF startDeviceFails(err)
       THEN [c EXCEPT !.pc = "idle", !.err = TRUE]
       ELSE [c EXCEPT !.pc = "setup"]

\* ---- Record, Standby, Off
\* An Off() that sends statusStandby.
SignalStandbyForOff(op) ==
  CASE op = "Record"  -> statusRecording
    [] op = "Standby" -> statusStandby
    [] op = "Off"     -> statusStandby

\* The status sent to both datamovers by a method.
Signal(op) ==
  CASE op = "Record"  -> statusRecording
    [] op = "Standby" -> statusStandby
    [] op = "Off"     -> statusOff

\* Record(): no test of the status; the first send is next.
Record ==
  /\ CanCallStream
  /\ ctl' = [op |-> "Record", pc |-> "send_dm", err |-> FALSE]
  /\ clog' = Append(clog, CallEvent("Record"))
  /\ UNCHANGED <<stream, dev, enc, dm, fm, bufs, proc>>

\* Standby() in statusStandby or statusRecording: the first send is next.
StandbySignal ==
  /\ CanCallStream
  /\ stream.status \in {statusStandby, statusRecording}
  /\ ctl' = [op |-> "Standby", pc |-> "send_dm", err |-> FALSE]
  /\ clog' = Append(clog, CallEvent("Standby"))
  /\ UNCHANGED <<stream, dev, enc, dm, fm, bufs, proc>>

\* Standby() in statusOff: the switch has chosen the statusOff case and
\* a.device.Open() is next.
StandbyFromOff ==
  /\ CanCallStream
  /\ stream.status = statusOff
  /\ Started < MaxActivations
  /\ ctl' = [op |-> "Standby", pc |-> DeviceCalls[1], err |-> FALSE]
  /\ dev' = [dev EXCEPT !.failed = NoError, !.failedBefore = dev.failed]
  /\ clog' = Append(clog, CallEvent("Standby"))
  /\ UNCHANGED <<stream, enc, dm, fm, bufs, proc>>

\* One device call of startDevice, which succeeds or returns an error;
\* Open() on the nil device is a nil dereference.  When startDevice
\* returns, Standby() returns its error or goes on to setupBuffers.
startDevice ==
  /\ proc = "running"
  /\ ctl.pc \in {DeviceCalls[i] : i \in 1..Len(DeviceCalls)}
  /\ IF stream.device = NoDevice
     THEN /\ proc' = "panicked"
          /\ UNCHANGED <<dev, ctl>>
     ELSE /\ \E ok \in BOOLEAN :
               LET err == IF ok THEN NoError ELSE ctl.pc
               IN /\ dev' = [dev EXCEPT
                               !.hw[stream.device] =
                                  DeviceCall(@, stream.deviceConfig, ctl.pc, ok),
                               !.failed = err]
                  /\ ctl' = AfterDeviceCall(ctl, err)
          /\ UNCHANGED proc
  /\ UNCHANGED <<stream, enc, dm, fm, bufs, clog>>

\* Standby() in statusOff after startDevice, one statement at a time:
\*   setup      frameBuffer, ringBuffer := a.setupBuffers()
\*   startdm    a.startDataMover(frameBuffer, ringBuffer): the go statement
\*   startfm    a.startFileMover(ringBuffer): the go statement
\*   setstatus  a.status = statusStandby; return nil
startMovers ==
  /\ proc = "running"
  /\ ctl.pc \in {"setup", "startdm", "startfm", "setstatus"}
  /\ CASE ctl.pc = "setup" ->
            /\ bufs' = [bufs EXCEPT ![Started + 1] = setupBuffers]
            /\ ctl' = [ctl EXCEPT !.pc = "startdm"]
            /\ UNCHANGED <<stream, dm, fm>>
       [] ctl.pc = "startdm" ->
            /\ dm' = [dm EXCEPT ![Started + 1].pc = "select"]
            /\ ctl' = [ctl EXCEPT !.pc = "startfm"]
            /\ UNCHANGED <<stream, fm, bufs>>
       [] ctl.pc = "startfm" ->
            /\ fm' = [fm EXCEPT ![Started].pc = "create"]
            /\ ctl' = [ctl EXCEPT !.pc = "setstatus"]
            /\ UNCHANGED <<stream, dm, bufs>>
       [] ctl.pc = "setstatus" ->
            /\ stream' = [stream EXCEPT !.status = statusStandby]
            /\ ctl' = [ctl EXCEPT !.pc = "idle"]
            /\ UNCHANGED <<dm, fm, bufs>>
  /\ UNCHANGED <<dev, enc, clog, proc>>

\* An Off() that closes the device also when the status is off.
OffWhenOffCloses ==
  /\ CanCallStream
  /\ stream.status = statusOff
  /\ ctl' = [op |-> "Off", pc |-> "close", err |-> FALSE]
  /\ clog' = Append(clog, CallEvent("Off"))
  /\ UNCHANGED <<stream, dev, enc, dm, fm, bufs, proc>>

\* Off() in statusOff returns at once.
OffWhenOff ==
  /\ CanCallStream
  /\ stream.status = statusOff
  /\ ctl' = [op |-> "Off", pc |-> "idle", err |-> FALSE]
  /\ clog' = Append(clog, CallEvent("Off"))
  /\ UNCHANGED <<stream, dev, enc, dm, fm, bufs, proc>>

\* Off() in statusStandby or statusRecording: the first send is next.
OffSignal ==
  /\ CanCallStream
  /\ stream.status \in {statusStandby, statusRecording}
  /\ ctl' = [op |-> "Off", pc |-> "send_dm", err |-> FALSE]
  /\ clog' = Append(clog, CallEvent("Off"))
  /\ UNCHANGED <<stream, dev, enc, dm, fm, bufs, proc>>

\* Position of the calling goroutine after its send on fmStatus.
AfterSignals(op, status) ==
  CASE op = "Record" -> "idle"
    [] op = "Standby" -> "idle"
    [] op = "Off" -> IF status = statusRecording THEN "wait_fm" ELSE "close"

\* A Record() that sets the status to recording.
StatusAfterSignalsRecording(op, status) ==
  CASE op = "Record"  -> statusRecording
    [] op = "Standby" -> statusStandby
    [] OTHER          -> status

\* A Standby() that reports the stream broken.
StatusAfterSignalsError(op, status) ==
  IF op = "Standby" THEN statusError ELSE status

\* The status field after the sends of a method.
StatusAfterSignals(op, status) ==
  IF op = "Standby" /\ status = statusRecording THEN statusStandby ELSE status

\* Can the goroutine inside Record, Standby or Off take its next step?
CtlEnabled(a, c) ==
  CASE c.pc = "send_dm" -> Len(a.dmStatus) < ChanCap
    [] c.pc = "send_fm" -> Len(a.fmStatus) < ChanCap
    [] c.pc = "wait_fm" -> a.fmDone > 0
    [] c.pc = "wait_dm" -> a.dmDone > 0
    [] c.pc = "close"   -> TRUE
    [] OTHER            -> FALSE

\* One step of Record, Standby or Off: the stream, the device and the frame
\* after the step.
\*   send_dm  a.dmStatus <- Signal(op)
\*   send_fm  a.fmStatus <- Signal(op), and what follows up to the next
\*            call that can block
\*   wait_fm  <-a.fmDone
\*   wait_dm  <-a.dmDone
\*   close    a.device.Close(); a.status = statusOff; return nil
CtlStep(a, d, c) ==
  CASE c.pc = "send_dm" ->
         [stream |-> [a EXCEPT !.dmStatus = Append(@, Signal(c.op))],
          dev    |-> d,
          ctl    |-> [c EXCEPT !.pc = "send_fm"]]
    [] c.pc = "send_fm" ->
         [stream |-> [a EXCEPT !.fmStatus = Append(@, Signal(c.op)),
                               !.status = StatusAfterSignals(c.op, @)],
          dev    |-> d,
          ctl    |-> [c EXCEPT !.pc = AfterSignals(c.op, a.status)]]
    [] c.pc = "wait_fm" ->
         [stream |-> [a EXCEPT !.fmDone = @ - 1],
          dev    |-> d,
          ctl    |-> [c EXCEPT !.pc = "wait_dm"]]
    [] c.pc = "wait_dm" ->
         [stream |-> [a EXCEPT !.dmDone = @ - 1],
          dev    |-> d,
          ctl    |-> [c EXCEPT !.pc = "close"]]
    [] c.pc = "close" ->
         [stream |-> [a EXCEPT !.status = statusOff],
          dev    |-> [d EXCEPT !.hw[a.device].open = FALSE,
                               !.hw[a.device].closes = @ + 1],
          ctl    |-> [c EXCEPT !.pc = "idle"]]

\* The goroutine inside Record, Standby or Off takes a step.
Controller ==
  /\ proc = "running"
  /\ CtlEnabled(stream, ctl)
  /\ LET s == CtlStep(stream, dev, ctl)
     IN /\ stream' = s.stream
        /\ dev' = s.dev
        /\ ctl' = s.ctl
  /\ UNCHANGED <<enc, dm, fm, bufs, clog, proc>>

\* ---- the datamover goroutines
\* A datamover that takes statusStandby for statusRecording.
ReceiveStandbyAsRecording(w, status) ==
  CASE status = statusRecording -> [w EXCEPT !.recording = TRUE]
    [] status = statusStandby   -> [w EXCEPT !.recording = TRUE]
    [] status = statusOff       -> [w EXCEPT !.recording = FALSE, !.die = TRUE]
    [] OTHER                    -> w

\* The locals of a datamover after it received status.
Receive(w, status) ==
  CASE status = statusRecording -> [w EXCEPT !.recording = TRUE]
    [] status = statusStandby   -> [w EXCEPT !.recording = FALSE]
    [] status = statusOff       -> [w EXCEPT !.recording = FALSE, !.die = TRUE]
    [] OTHER                    -> w

\* Position of a datamover after the recording part of the default case.
AfterTransfer(w) == IF w.die THEN "done" ELSE "select"

\* The frame handed to Write: the samples do not steer anything.
Frame == Zeros(FrameBufferSize)

\* A device datamover whose default case moves data without the test of
\* recording.
DmSelectTransferUnarmed(g) ==
  /\ proc = "running"
  /\ dm[g].pc = "select"
  /\ IF stream.dmStatus # <<>>
     THEN /\ dm' = [dm EXCEPT ![g] = Receive(@, Head(stream.dmStatus))]
          /\ stream' = [stream EXCEPT !.dmStatus = Tail(@)]
     ELSE /\ Reads < MaxFrames
          /\ dm' = [dm EXCEPT ![g].pc = "devread"]
          /\ UNCHANGED stream
  /\ UNCHANGED <<dev, enc, ctl, fm, bufs, clog, proc>>

\* Device datamover: the select of one loop iteration.  With nothing to
\* receive, not recording and not dying the iteration changes nothing.  The
\* device hands out MaxFrames frame buffers; the iteration that asks for one
\* more is not explored.
DmSelect(g) ==
  /\ proc = "running"
  /\ dm[g].pc = "select"
  /\ IF stream.dmStatus # <<>>
     THEN /\ dm' = [dm EXCEPT ![g] = Receive(@, Head(stream.dmStatus))]
          /\ stream' = [stream EXCEPT !.dmStatus = Tail(@)]
     ELSE /\ (dm[g].recording /\ Reads < MaxFrames) \/ dm[g].die
          /\ dm' = [dm EXCEPT ![g].pc = IF dm[g].recording THEN "devread" ELSE "done"]
          /\ UNCHANGED stream
  /\ UNCHANGED <<dev, enc, ctl, fm, bufs, clog, proc>>

\* a.device.Read(frameBuffer.Data), then the call of Write.
DmDeviceRead(g) ==
  /\ proc = "running"
  /\ dm[g].pc = "devread"
  /\ dev' = [dev EXCEPT !.hw[stream.device].reads = @ + 1,
                        !.hw[stream.device].readClosed = @ \/ ~Device.open]
  /\ dm' = [dm EXCEPT ![g].pc = "write", ![g].fr = WriteCall(Frame)]
  /\ UNCHANGED <<stream, enc, ctl, fm, bufs, clog, proc>>

\* One step of ringBuffer.Write(frameBuffer.Data).
DmWrite(g) ==
  /\ proc = "running"
  /\ dm[g].pc = "write"
  /\ WriteEnabled(bufs[g], dm[g].fr)
  /\ LET s == WriteStep(bufs[g], dm[g].fr)
     IN /\ bufs' = [bufs EXCEPT ![g] = s.rb]
        /\ dm' = [dm EXCEPT ![g].fr = s.fr,
                            ![g].pc = IF s.fr.pc = "idle" THEN AfterTransfer(dm[g])
                                      ELSE "write"]
        /\ proc' = IF s.fr.pc = "panic" THEN "panicked" ELSE proc
  /\ UNCHANGED <<stream, dev, enc, ctl, fm, clog>>

\* a.dmDone <- struct{}{}; return
DmDone(g) ==
  /\ proc = "running"
  /\ dm[g].pc = "done"
  /\ stream.dmDone < ChanCap
  /\ stream' = [stream EXCEPT !.dmDone = @ + 1]
  /\ dm' = [dm EXCEPT ![g].pc = "exited"]
  /\ UNCHANGED <<dev, enc, ctl, fm, bufs, clog, proc>>

\* File datamover: os.Create and wav.NewEncoder; a failed Create is os.Exit(1).
FmCreate(g) ==
  /\ proc = "running"
  /\ fm[g].pc = "create"
  /\ \E created \in BOOLEAN :
       IF created
       THEN /\ enc' = [enc EXCEPT !.created = @ + 1]
            /\ fm' = [fm EXCEPT ![g].pc = "select"]
            /\ UNCHANGED proc
       ELSE /\ proc' = "exited"
            /\ UNCHANGED <<enc, fm>>
  /\ UNCHANGED <<stream, dev, ctl, dm, bufs, clog>>

\* File datamover: the select of one loop iteration.
FmSelect(g) ==
  /\ proc = "running"
  /\ fm[g].pc = "select"
  /\ IF stream.fmStatus # <<>>
     THEN /\ fm' = [fm EXCEPT ![g] = Receive(@, Head(stream.fmStatus))]
          /\ stream' = [stream EXCEPT !.fmStatus = Tail(@)]
     ELSE /\ fm[g].recording \/ fm[g].die
          /\ fm' = [fm EXCEPT ![g].pc = IF fm[g].recording THEN "read" ELSE "done",
                              ![g].fr = IF fm[g].recording THEN ReadCall(bufs[g]) ELSE @]
          /\ UNCHANGED stream
  /\ UNCHANGED <<dev, enc, ctl, dm, bufs, clog, proc>>

\* One step of ringBuffer.ReadNoBlock().
FmRead(g) ==
  /\ proc = "running"
  /\ fm[g].pc = "read"
  /\ ReadEnabled(bufs[g], fm[g].fr)
  /\ LET s == ReadStep(bufs[g], fm[g].fr)
     IN /\ bufs' = [bufs EXCEPT ![g] = s.rb]
        /\ fm' = [fm EXCEPT ![g].fr = s.fr,
                            ![g].pc = IF s.fr.pc = "idle"
                                      THEN (IF s.fr.ok THEN "encode" ELSE AfterTransfer(fm[g]))
                                      ELSE "read"]
        /\ proc' = IF s.fr.pc = "panic" THEN "panicked" ELSE proc
  /\ UNCHANGED <<stream, dev, enc, ctl, dm, clog>>

\* A file datamover that goes on after a failed enc.Write.
FmEncodeErrorIgnored(g) ==
  /\ proc = "running"
  /\ fm[g].pc = "encode"
  /\ \E written \in BOOLEAN :
       /\ enc' = [enc EXCEPT !.written = @ \/ written]
       /\ fm' = [fm EXCEPT ![g].pc = AfterTransfer(fm[g])]
       /\ UNCHANGED proc
  /\ UNCHANGED <<stream, dev, ctl, dm, bufs, clog>>

\* enc.Write(intBuf); a failed Write is os.Exit(1).
FmEncode(g) ==
  /\ proc = "running"
  /\ fm[g].pc = "encode"
  /\ \E written \in BOOLEAN :
       IF written
       THEN /\ enc' = [enc EXCEPT !.written = TRUE]
            /\ fm' = [fm EXCEPT ![g].pc = AfterTransfer(fm[g])]
            /\ UNCHANGED proc
       ELSE /\ proc' = "exited"
            /\ UNCHANGED <<enc, fm>>
  /\ UNCHANGED <<stream, dev, ctl, dm, bufs, clog>>

\* enc.Close()
FmClose(g) ==
  /\ proc = "running"
  /\ fm[g].pc = "done"
  /\ enc' = [enc EXCEPT !.closed = @ + 1]
  /\ fm' = [fm EXCEPT ![g].pc = "senddone"]
  /\ UNCHANGED <<stream, dev, ctl, dm, bufs, clog, proc>>

\* a.fmDone <- struct{}{}; return
FmDone(g) ==
  /\ proc = "running"
  /\ fm[g].pc = "senddone"
  /\ stream.fmDone < ChanCap
  /\ stream' = [stream EXCEPT !.fmDone = @ + 1]
  /\ fm' = [fm EXCEPT ![g].pc = "exited"]
  /\ UNCHANGED <<dev, enc, ctl, dm, bufs, clog, proc>>

\* The stream with its device set: NewAudioStream() followed by SetDevice.
\* Record, Standby and Off are called in every order, one after the other
\* has returned, while the datamovers run.
StreamInit ==
  /\ stream = SetDeviceResult(NewAudioStream, "hw0", ZeroConfig)
  /\ dev = NewDevices
  /\ enc = NewEncoderState
  /\ ctl = IdleCtl
  /\ dm = [g \in Activations |-> NoDataMover]
  /\ fm = [g \in Activations |-> NoFileMover]
  /\ bufs = [g \in Activations |-> setupBuffers]
  /\ clog = <<>>
  /\ proc = "running"
  /\ RingStart

StreamNext ==
  \/ (Record /\ UNCHANGED ringVars)
  \/ (StandbySignal /\ UNCHANGED ringVars)
  \/ (StandbyFromOff /\ UNCHANGED ringVars)
  \/ (OffWhenOff /\ UNCHANGED ringVars)
  \/ (OffSignal /\ UNCHANGED ringVars)
  \/ (startDevice /\ UNCHANGED ringVars)
  \/ (startMovers /\ UNCHANGED ringVars)
  \/ (Controller /\ UNCHANGED ringVars)
  \/ \E g \in Activations : DmSelect(g) /\ UNCHANGED ringVars
  \/ \E g \in Activations : DmDeviceRead(g) /\ UNCHANGED ringVars
  \/ \E g \in Activations : DmWrite(g) /\ UNCHANGED ringVars
  \/ \E g \in Activations : DmDone(g) /\ UNCHANGED ringVars
  \/ \E g \in Activations : FmCreate(g) /\ UNCHANGED ringVars
  \/ \E g \in Activations : FmSelect(g) /\ UNCHANGED ringVars
  \/ \E g \in Activations : FmRead(g) /\ UNCHANGED ringVars
  \/ \E g \in Activations : FmEncode(g) /\ UNCHANGED ringVars
  \/ \E g \in Activations : FmClose(g) /\ UNCHANGED ringVars
  \/ \E g \in Activations : FmDone(g) /\ UNCHANGED ringVars

StreamSpec == StreamInit /\ [][StreamNext]_vars

\* The stream as NewAudioStream() leaves it, with SetDevice and SetFileName
\* among the calls.
ConfigInit == StreamStart /\ RingStart

ConfigNext ==
  \/ (SetDevice /\ UNCHANGED ringVars)
  \/ (SetFileName /\ UNCHANGED ringVars)
  \/ StreamNext

ConfigSpec == ConfigInit /\ [][ConfigNext]_vars

\* The next step of the device datamover and of the file datamover of
\* activation g.
DataMover(g) == DmSelect(g) \/ DmDeviceRead(g) \/ DmWrite(g) \/ DmDone(g)
FileMover(g) ==
  \/ FmCreate(g) \/ FmSelect(g) \/ FmRead(g) \/ FmEncode(g)
  \/ FmClose(g) \/ FmDone(g)

\* The next step of the goroutine that is inside Standby() or Off().
Caller == startDevice \/ startMovers \/ Controller

\* The Go scheduler runs every goroutine that can run: the goroutine inside a
\* method and the datamovers each take their next step when it stays
\* possible.  Nothing obliges the caller to make a further call.
StreamFairness ==
  /\ WF_vars(Caller /\ UNCHANGED ringVars)
  /\ \A g \in Activations :
       /\ WF_vars(DataMover(g) /\ UNCHANGED ringVars)
       /\ WF_vars(FileMover(g) /\ UNCHANGED ringVars)

StreamFairSpec == StreamSpec /\ StreamFairness

\* One life of the stream: Standby(), Record(), Standby(), Off() called in
\* this order, each after the one before has returned, while the datamovers
\* run under the same scheduling.
Lifecycle == <<"Standby", "Record", "Standby", "Off">>
NextInLifecycle(op) ==
  /\ Len(clog) < Len(Lifecycle)
  /\ Lifecycle[Len(clog) + 1] = op

LifecycleNext ==
  \/ (NextInLifecycle("Standby") /\ StandbyFromOff /\ UNCHANGED ringVars)
  \/ (NextInLifecycle("Record") /\ Record /\ UNCHANGED ringVars)
  \/ (NextInLifecycle("Standby") /\ StandbySignal /\ UNCHANGED ringVars)
  \/ (NextInLifecycle("Off") /\ OffWhenOff /\ UNCHANGED ringVars)
  \/ (NextInLifecycle("Off") /\ OffSignal /\ UNCHANGED ringVars)
  \/ (startDevice /\ UNCHANGED ringVars)
  \/ (startMovers /\ UNCHANGED ringVars)
  \/ (Controller /\ UNCHANGED ringVars)
  \/ \E g \in Activations : DataMover(g) /\ UNCHANGED ringVars
  \/ \E g \in Activations : FileMover(g) /\ UNCHANGED ringVars

LifecycleSpec == StreamInit /\ [][LifecycleNext]_vars /\ StreamFairness

\* The stream taken to standby and kept there: Standby() is the only method
\* called, any number of times, while the datamovers run.
RestNext ==
  \/ (StandbyFromOff /\ UNCHANGED ringVars)
  \/ (StandbySignal /\ UNCHANGED ringVars)
  \/ (startDevice /\ UNCHANGED ringVars)
  \/ (startMovers /\ UNCHANGED ringVars)
  \/ (Controller /\ UNCHANGED ringVars)
  \/ \E g \in Activations : DataMover(g) /\ UNCHANGED ringVars
  \/ \E g \in Activations : FileMover(g) /\ UNCHANGED ringVars

RestSpec == StreamInit /\ [][RestNext]_vars /\ StreamFairness


\* ----------------------------------------------------------------- history
\* hist records what the callers of the buffer did and saw: a Write event
\* when Write is called (with its argument), an Overflow event when Write
\* takes the branch at ringbuffer.go:61, and a Read event when ReadNoBlock
\* returns (with its two results).
WriteEvent(buff)   == [op |-> "Write", buff |-> buff, ok |-> TRUE]
OverflowEvent      == [op |-> "Overflow", buff |-> <<>>, ok |-> TRUE]
ReadEvent(buff, ok) == [op |-> "Read", buff |-> buff, ok |-> ok]

RECURSIVE CountOp(_, _)
CountOp(h, op) ==
  IF h = <<>> THEN 0
  ELSE CountOp(Tail(h), op) + (IF Head(h).op = op THEN 1 ELSE 0)

NumCalls(h) == CountOp(h, "Write") + CountOp(h, "Read")

\* The writeSize bytes a Write of buff is to store: buff cut to writeSize,
\* then zeros up to writeSize.
Stored(buff, w) ==
  [i \in 1..w |-> IF i <= Len(buff) THEN buff[i] ELSE 0]

\* All bytes handed to the buffer so far, as they are to be stored.
RECURSIVE Written(_, _)
Written(h, w) ==
  IF h = <<>> THEN <<>>
  ELSE LET e == h[Len(h)]
       IN Written(SubSeq(h, 1, Len(h) - 1), w)
            \o (IF e.op = "Write" THEN Stored(e.buff, w) ELSE <<>>)

\* The chunks handed out by the ReadNoBlock calls that returned true.
RECURSIVE Delivered(_)
Delivered(h) ==
  IF h = <<>> THEN <<>>
  ELSE LET e == h[Len(h)]
       IN Delivered(SubSeq(h, 1, Len(h) - 1))
            \o (IF e.op = "Read" /\ e.ok THEN <<e.buff>> ELSE <<>>)

\* Chunk k (from 0) of the written stream, if it is complete.
WrittenChunks(h, w, r) ==
  LET all == Written(h, w)
  IN [k \in 1..(Len(all) \div r) |-> SubSeq(all, (k - 1) * r + 1, k * r)]

\* Positions (from 1) in the written stream of the chunks given up by the
\* Overflow events: each gives up the oldest chunk not yet read or skipped.
RECURSIVE Skipped(_)
Skipped(h) ==
  IF h = <<>> THEN {}
  ELSE LET p == SubSeq(h, 1, Len(h) - 1)
       IN IF h[Len(h)].op = "Overflow"
          THEN Skipped(p) \cup {Len(Delivered(p)) + CountOp(p, "Overflow") + 1}
          ELSE Skipped(p)

\* The written chunks without the skipped ones, in the order written.
RECURSIVE DropSkipped(_, _, _)
DropSkipped(chunks, skip, k) ==
  IF k > Len(chunks) THEN <<>>
  ELSE (IF k \in skip THEN <<>> ELSE <<chunks[k]>>) \o DropSkipped(chunks, skip, k + 1)

Expected(h, w, r) == DropSkipped(WrittenChunks(h, w, r), Skipped(h), 1)

IsPrefix(s, t) == Len(s) <= Len(t) /\ s = SubSeq(t, 1, Len(s))

RECURSIVE Flatten(_)
Flatten(ss) == IF ss = <<>> THEN <<>> ELSE Head(ss) \o Flatten(Tail(ss))

\* ------------------------------------------------------------------ inputs
\* Bytes are numbered as they are handed to Write, so that every byte of
\* the stream is distinct and 0 is only ever padding or the initial store.
RECURSIVE InputBytes(_)
InputBytes(h) ==
  IF h = <<>> THEN 0
  ELSE InputBytes(Tail(h)) + (IF Head(h).op = "Write" THEN Len(Head(h).buff) ELSE 0)

Input(h, len) == [i \in 1..len |-> InputBytes(h) + i]

\* Argument lengths tried: shorter than, equal to and longer than writeSize.
InputLens(w) == {w - 1, w, w + 1}

\* ------------------------------------------- one caller (sequential) spec
\* A single thread calls Write and ReadNoBlock one after the other.  A call
\* that blocks never returns (nothing else runs), a call that panics ends
\* the process: in both cases no further call is made.
SeqInit ==
  /\ \E g \in SeqGeometries : rb = NewRingBuffer(g)
  /\ wr = IdleWriter
  /\ rd = IdleReader
  /\ hist = <<>>
  /\ StreamStart

CanCall == wr.pc = "idle" /\ rd.pc = "idle"

SeqWrite ==
  /\ CanCall
  /\ NumCalls(hist) < MaxOps
  /\ \E len \in InputLens(rb.writeSize) :
       LET buff == Input(hist, len)
           s    == Write(rb, buff)
       IN /\ rb' = s.rb
          /\ wr' = s.fr
          /\ hist' = hist \o <<WriteEvent(buff)>>
                          \o (IF s.fr.ovf THEN <<OverflowEvent>> ELSE <<>>)
  /\ UNCHANGED <<rd, streamVars>>

SeqRead ==
  /\ CanCall
  /\ NumCalls(hist) < MaxOps
  /\ LET s == ReadNoBlock(rb)
     IN /\ rb' = s.rb
        /\ rd' = s.fr
        /\ hist' = IF s.fr.pc = "idle"
                   THEN hist \o <<ReadEvent(s.fr.buff, s.fr.ok)>>
                   ELSE hist
  /\ UNCHANGED <<wr, streamVars>>

SeqNext == SeqWrite \/ SeqRead

SeqSpec == SeqInit /\ [][SeqNext]_vars


\* ------------------------------- one producer, one consumer (concurrent)
\* One goroutine calls Write again and again, another calls ReadNoBlock
\* again and again; their steps interleave in every order.  A panic (index
\* out of range) ends the process.
Panicked == wr.pc = "panic" \/ rd.pc = "panic"

ConcInit ==
  /\ \E g \in ConcGeometries : rb = NewRingBuffer(g)
  /\ wr = IdleWriter
  /\ rd = IdleReader
  /\ hist = <<>>
  /\ StreamStart

ProducerCall ==
  /\ ~Panicked
  /\ wr.pc = "idle"
  /\ CountOp(hist, "Write") < MaxConcWrites
  /\ \E len \in InputLens(rb.writeSize) :
       /\ wr' = WriteCall(Input(hist, len))
       /\ hist' = Append(hist, WriteEvent(Input(hist, len)))
  /\ UNCHANGED <<rb, rd, streamVars>>

ProducerStep ==
  /\ ~Panicked
  /\ WriteEnabled(rb, wr)
  /\ LET s == WriteStep(rb, wr)
     IN /\ rb' = s.rb
        /\ wr' = s.fr
        /\ hist' = IF s.fr.ovf /\ ~wr.ovf THEN Append(hist, OverflowEvent) ELSE hist
  /\ UNCHANGED <<rd, streamVars>>

ConsumerCall ==
  /\ ~Panicked
  /\ rd.pc = "idle"
  /\ CountOp(hist, "Read") < MaxConcReads
  /\ rd' = ReadCall(rb)
  /\ UNCHANGED <<rb, wr, hist, streamVars>>

ConsumerStep ==
  /\ ~Panicked
  /\ ReadEnabled(rb, rd)
  /\ LET s == ReadStep(rb, rd)
     IN /\ rb' = s.rb
        /\ rd' = s.fr
        /\ hist' = IF s.fr.pc = "idle"
                   THEN Append(hist, ReadEvent(s.fr.buff, s.fr.ok))
                   ELSE hist
  /\ UNCHANGED <<wr, streamVars>>

ConcNext == ProducerCall \/ ProducerStep \/ ConsumerCall \/ ConsumerStep

ConcSpec == ConcInit /\ [][ConcNext]_vars


\* ================================================================= claims
IsCall(e) == e.op # "Overflow"
Calls(h) == SelectSeq(h, IsCall)

\* ReadNoBlock called until it does not return true; NoChunk stands for a
\* call that did not return (panic or block).
NoChunk == <<-1>>
RECURSIVE Drain(_)
Drain(b) ==
  LET s == ReadNoBlock(b)
  IN IF s.fr.pc = "idle"
     THEN (IF s.fr.ok THEN <<s.fr.buff>> \o Drain(s.rb) ELSE <<>>)
     ELSE <<NoChunk>>

\* The calls so far are n Writes followed only by ReadNoBlocks.
WritesThenReads(h, n) ==
  LET c == Calls(h)
  IN /\ Len(c) >= n
     /\ \A k \in 1..Len(c) : c[k].op = (IF k <= n THEN "Write" ELSE "Read")

\* ... and the ReadNoBlocks were repeated until one returned false.
FilledThenDrained(h, n) ==
  LET c == Calls(h)
  IN /\ WritesThenReads(h, n)
     /\ Len(c) > n
     /\ \A k \in (n + 1)..Len(c) : c[k].ok <=> (k < Len(c))

\* C1: after DataSize/WriteSize Writes with no read in between, ReadNoBlock
\* repeated until it returns false hands out every written byte, in the
\* order written.
C1_FillThenDrainReturnsAll ==
  (CanCall /\ FilledThenDrained(hist, rb.wCap))
     => Flatten(Delivered(hist)) = Written(hist, rb.writeSize)

\* The scenario of C2: DataSize 16, WriteSize 2, ReadSize 4, and the Writes
\* of [1,2], [3,4], [5,6], [7,8] followed only by ReadNoBlocks.
C2_Scenario ==
  /\ Len(rb.data) = 16 /\ rb.writeSize = 2 /\ rb.readSize = 4
  /\ WritesThenReads(hist, 4)
  /\ \A k \in 1..4 : Calls(hist)[k].buff = <<2 * k - 1, 2 * k>>

\* C2 as claimed: the first ReadNoBlock returns [1,2,3,4] and true, the
\* second returns false.
C2_SecondReadFalse ==
  (C2_Scenario /\ Len(Calls(hist)) = 6)
     => /\ Calls(hist)[5] = ReadEvent(<<1, 2, 3, 4>>, TRUE)
        /\ ~Calls(hist)[6].ok

\* C2 amended: the first ReadNoBlock returns [1,2,3,4] and true, the second
\* returns [5,6,7,8] and true, the third returns false.
C2_ThirdReadFalse ==
  C2_Scenario
     => LET c == Calls(hist)
        IN /\ Len(c) >= 5 => c[5] = ReadEvent(<<1, 2, 3, 4>>, TRUE)
           /\ Len(c) >= 6 => c[6] = ReadEvent(<<5, 6, 7, 8>>, TRUE)
           /\ Len(c) >= 7 => ~c[7].ok

C2_Witness == C2_Scenario /\ Len(Calls(hist)) = 7 /\ CanCall

\* C3: as long as ReadNoBlock is never called, every Write returns.
C3_ProducerAloneNeverStalls ==
  CountOp(hist, "Read") = 0 => wr.pc = "idle"

\* C4: both cursors are within [0, DataSize) and no access to the store is
\* out of range.
C4_CursorsInRange ==
  /\ CanCall => /\ rb.writeIdx \in 0..(Len(rb.data) - 1)
                /\ rb.readIdx \in 0..(Len(rb.data) - 1)
  /\ ~Panicked

\* C5: the send on rSem and the receive from rSem in the overflow branch of
\* Write never block, so a Write waits only for its write permit (and for
\* the mutex).
C5_WriteWaitsOnlyForPermit ==
  (wr.pc \in {"signal", "withdraw"}) => WriteEnabled(rb, wr)

\* C6: the chunks handed out are, in order, the chunks written without the
\* ones given up by an overflow, and no more bytes than were written.
C6_DeliveredInOrder ==
  /\ IsPrefix(Delivered(hist), Expected(hist, rb.writeSize, rb.readSize))
  /\ Len(Flatten(Delivered(hist))) <= Len(Written(hist, rb.writeSize))

C6_Witness ==
  /\ CountOp(hist, "Overflow") > 0
  /\ Len(Delivered(hist)) >= 2
  /\ wr.pc # "idle"

\* C7: after an overflow every unread chunk but the one given up is still
\* handed out by the following ReadNoBlocks.
C7_OverflowDropsOnlyOldest ==
  (CanCall /\ CountOp(hist, "Overflow") > 0)
     => Delivered(hist) \o Drain(rb) = Expected(hist, rb.writeSize, rb.readSize)

\* C8: a ReadNoBlock that finds no read permit returns false in that step,
\* is never made to wait, and changes nothing in the buffer.
C8_EmptyReadReturnsFalse ==
  /\ [][(rd.pc = "select" /\ rb.rSem = 0 /\ rd' # rd)
          => (rd'.pc = "idle" /\ ~rd'.ok /\ rb' = rb)]_vars
  /\ [](rd.pc = "select" => ReadEnabled(rb, rd))

C8_Witness ==
  /\ hist # <<>>
  /\ hist[Len(hist)].op = "Read" /\ ~hist[Len(hist)].ok
  /\ wr.pc \notin {"idle", "acquire"}
  /\ rd.pc = "idle"
\* The last call made, and the one before it.
LastCall == clog[Len(clog)]
CallBeforeLast == clog[Len(clog) - 1]

\* C9: when Off() follows a Record() that was called in standby, the device
\* is closed only once both datamovers of the activation have sent on their
\* done channel: when Off() has returned, both have.
C9_CloseAfterBothDone ==
  (/\ Len(clog) >= 2
   /\ LastCall.op = "Off"
   /\ CallBeforeLast = [op |-> "Record", status |-> statusStandby]
   /\ ctl.pc = "idle")
     => (dm[Started].pc = "exited" /\ fm[Started].pc = "exited")

\* C10: Record() called in standby leaves the status at recording, with a
\* recording signal sent to each datamover.
C10_RecordSetsRecording ==
  (/\ Len(clog) >= 1
   /\ LastCall = [op |-> "Record", status |-> statusStandby]
   /\ ctl.pc = "idle")
     => stream.status = statusRecording
\* C11: with the datamovers scheduled fairly, a Record(), Standby() or Off()
\* called while the stream is not off returns, and the status it sent on
\* dmStatus and on fmStatus is received: the caller is never left blocked on
\* one of the single-slot channels.  The end of the process ends the wait.
C11_SignalsReceivedCallsReturn ==
  /\ (ctl.pc # "idle" /\ LastCall.status # statusOff)
        ~> (ctl.pc = "idle" \/ proc # "running")
  /\ (stream.dmStatus # <<>> /\ LastCall.status # statusOff)
        ~> (stream.dmStatus = <<>> \/ proc # "running")
  /\ (stream.fmStatus # <<>> /\ LastCall.status # statusOff)
        ~> (stream.fmStatus = <<>> \/ proc # "running")
\* The methods called so far, in order.
CallOps == [i \in 1..Len(clog) |-> clog[i].op]

\* Standby() from off, Record(), Standby(), Off() and nothing else have
\* been called, each after the one before returned, no call of startDevice,
\* os.Create or enc.Write having failed.
C12_Sequence ==
  /\ CallOps = <<"Standby", "Record", "Standby", "Off">>
  /\ clog[1].status = statusOff
  /\ clog[2].status # statusOff
  /\ proc = "running"

\* C12: the sequence Standby() from off, Record(), Standby(), Off() with
\* every device and encoder call succeeding never opens or closes the device
\* or creates or closes an encoder more than once, and brings the stream to
\* where Off() has returned with the device opened once and closed once and
\* one encoder created and closed.
C12_OpenedClosedOnce ==
  /\ [](C12_Sequence =>
          /\ Opens = 1 /\ Closes <= 1
          /\ enc.created <= 1 /\ enc.closed <= 1)
  /\ C12_Sequence ~>
        \/ /\ ctl.pc = "idle"
           /\ Opens = 1 /\ Closes = 1
           /\ enc.created = 1 /\ enc.closed = 1
        \/ ~C12_Sequence
\* C13: SetFileName called in off or standby returns no error and stores the
\* file name; called in any other status it returns an error and leaves the
\* file name as it was.
C13_SetFileNameOffOrStandby ==
  [][(SetFileName /\ UNCHANGED ringVars) =>
       IF stream.status \in {statusOff, statusStandby}
       THEN ~ctl'.err /\ stream'.fileName \in FileNames
       ELSE ctl'.err /\ stream'.fileName = stream.fileName]_vars

\* C14: SetDevice returns no error only when the status is off; called in
\* any other status it returns an error and leaves the device and the status
\* as they were.
C14_SetDeviceOnlyWhenOff ==
  [][(SetDevice /\ UNCHANGED ringVars) =>
       /\ ~ctl'.err => stream.status = statusOff
       /\ stream.status # statusOff =>
            /\ ctl'.err
            /\ stream'.device = stream.device
            /\ stream'.status = stream.status]_vars

\* SetDevice was called in standby and has returned its error.
C14_Witness ==
  /\ Len(clog) >= 1
  /\ LastCall = [op |-> "SetDevice", status |-> statusStandby]
  /\ ctl.op = "SetDevice" /\ ctl.err
  /\ stream.device \in Devices
\* C15: when a call of startDevice returns an error in Standby() called in
\* off, Standby() returns an error, the status stays off, and no ring buffer
\* is set up and no datamover started.
\* Every device call of startDevice is made with the status off and leaves
\* the stream, the ring buffers and the datamovers as they are, and the one
\* that returns an error is the last step of Standby().
C15_FailedStartLeavesOff ==
  [][(startDevice /\ UNCHANGED ringVars /\ proc' = "running") =>
       /\ stream.status = statusOff /\ stream' = stream
       /\ bufs' = bufs /\ dm' = dm /\ fm' = fm
       /\ dev'.failed # NoError =>
            ctl' = [op |-> "Standby", pc |-> "idle", err |-> TRUE]]_vars

\* Standby() called in off has just returned the error of a device call.
C15_Witness ==
  /\ Len(clog) >= 1
  /\ LastCall = [op |-> "Standby", status |-> statusOff]
  /\ ctl.op = "Standby" /\ ctl.pc = "idle" /\ ctl.err
  /\ dev.failed \in {DeviceCalls[i] : i \in 1..Len(DeviceCalls)}
  /\ stream.status = statusOff

\* Standby() was called in off after the Standby() before it failed in
\* NegotiateRate, and no device call of it has failed.
RetryAfterRateError ==
  /\ Len(clog) >= 1
  /\ LastCall = [op |-> "Standby", status |-> statusOff]
  /\ ctl.op = "Standby"
  /\ dev.failedBefore = "NegotiateRate" /\ dev.failed = NoError
  /\ proc = "running"

\* C16: a Standby() in which every device call succeeds, made after the
\* Standby() before it failed in NegotiateRate, returns no error, with the
\* status standby and the two datamovers of a new activation started: no
\* device call that succeeds makes it return, and the statement that sets
\* the status to standby and returns comes after both go statements.
C16_RetryAfterRateError ==
  /\ [][(RetryAfterRateError /\ startDevice /\ UNCHANGED ringVars
          /\ dev'.failed = NoError) =>
            (ctl'.pc # "idle" /\ ~ctl'.err)]_vars
  /\ [][(RetryAfterRateError /\ ctl.pc # "idle" /\ ctl'.pc = "idle"
          /\ dev'.failed = NoError) =>
            /\ ctl.pc = "setstatus"
            /\ dm[Started].pc # "none" /\ fm[Started].pc # "none"]_vars
  /\ [](RetryAfterRateError /\ ctl.pc = "idle" =>
            /\ ~ctl.err
            /\ stream.status = statusStandby
            /\ dm[Started].pc # "none" /\ fm[Started].pc # "none")

\* The retry has returned.
C16_Witness ==
  /\ Len(clog) >= 2
  /\ LastCall = [op |-> "Standby", status |-> statusOff]
  /\ CallBeforeLast = [op |-> "Standby", status |-> statusOff]
  /\ dev.failedBefore = "NegotiateRate" /\ dev.failed = NoError
  /\ ctl.op = "Standby" /\ ctl.pc = "idle" /\ ~ctl.err
  /\ stream.status = statusStandby
  /\ Started = 1
\* The call that took the stream from off to the standby it is in: the last
\* Standby() that found the status off.
IsActivation(i) == clog[i] = [op |-> "Standby", status |-> statusOff]
LastActivation ==
  CHOOSE i \in 1..Len(clog) :
    IsActivation(i) /\ \A j \in (i + 1)..Len(clog) : ~IsActivation(j)
NoRecordSinceActivation ==
  \A j \in (LastActivation + 1)..Len(clog) : clog[j].op # "Record"

\* A datamover is disarmed and moves nothing.
DmAtRest(g) == ~dm[g].recording /\ dm[g].pc \notin {"devread", "write"}
FmAtRest(g) == ~fm[g].recording /\ fm[g].pc \notin {"read", "encode"}

\* C17: from a successful Standby() called in off until the next Record(),
\* the two datamovers it started are disarmed and move nothing, whatever was
\* called before.
C17_DisarmedUntilRecord ==
  (/\ stream.status # statusOff
   /\ Started >= 1
   /\ NoRecordSinceActivation)
     => (DmAtRest(Started) /\ FmAtRest(Started))

\* C18: when no method is running and the status is off, no datamover
\* goroutine is running.
C18_NoWorkersWhenOff ==
  (stream.status = statusOff /\ ctl.pc = "idle")
     => \A g \in Activations :
          /\ dm[g].pc \in {"none", "exited"}
          /\ fm[g].pc \in {"none", "exited"}

StandbyInStandby ==
  /\ Len(clog) >= 1
  /\ LastCall = [op |-> "Standby", status |-> statusStandby]

\* The stream at rest in standby: nothing waiting in the status channels,
\* both datamovers of the activation in their loop, disarmed, the ring
\* buffer as setupBuffers left it.
AtRestInStandby ==
  /\ stream.status = statusStandby
  /\ stream.dmStatus = <<>> /\ stream.fmStatus = <<>>
  /\ dm[1] = [NoDataMover EXCEPT !.pc = "select"]
  /\ fm[1] = [NoFileMover EXCEPT !.pc = "select"]
  /\ bufs[1] = setupBuffers
  /\ \A g \in Activations \ {1} : dm[g] = NoDataMover /\ fm[g] = NoFileMover

\* C20: Standby() called in standby with the datamovers disarmed keeps the
\* status standby and the datamovers disarmed, opens nothing and starts
\* nothing, and returns; after one call or after several in a row the stream
\* comes to the same rest.
C20_StandbyIdempotent ==
  /\ [](StandbyInStandby =>
          /\ stream.status = statusStandby
          /\ Started = 1
          /\ DmAtRest(1) /\ FmAtRest(1))
  /\ [][StandbyInStandby' => (Opens' = Opens /\ Closes' = Closes)]_vars
  /\ ((StandbyInStandby /\ ctl.pc # "idle")
        ~> (ctl.pc = "idle" \/ proc # "running"))
  /\ ((StandbyInStandby /\ ctl.pc = "idle")
        ~> (AtRestInStandby \/ ctl.pc # "idle" \/ proc # "running"))

\* Standby() was called three times in a row in standby, and the stream is
\* at rest.
C20_Witness ==
  /\ Len(clog) >= 4
  /\ \A i \in (Len(clog) - 2)..Len(clog) :
       clog[i] = [op |-> "Standby", status |-> statusStandby]
  /\ ctl.pc = "idle"
  /\ proc = "running"
  /\ AtRestInStandby
\* C21: Off() called while the status is off returns at once with no error
\* and leaves the stream (status, device, file name, the four channels) and
\* the device as they were.
C21_OffWhenOffNoOp ==
  [][(clog' = Append(clog, [op |-> "Off", status |-> statusOff])) =>
       /\ ctl' = [op |-> "Off", pc |-> "idle", err |-> FALSE]
       /\ stream' = stream
       /\ dev' = dev]_vars

\* Off() was called in off after the stream had been on and off once.
C21_Witness ==
  /\ Len(clog) >= 1
  /\ LastCall = [op |-> "Off", status |-> statusOff]
  /\ ctl = [op |-> "Off", pc |-> "idle", err |-> FALSE]
  /\ Opens = 1 /\ Closes = 1
  /\ stream.status = statusOff

\* C22: the status is never statusError.
C22_StatusNeverError == stream.status # statusError

\* After an activation and an Off(), Standby() has failed in a device call:
\* the status is off.
C22_Witness ==
  /\ Started >= 1
  /\ ctl.op = "Standby" /\ ctl.err
  /\ dev.failed # NoError
  /\ stream.status = statusOff

\* The process ends in this step and nothing else changes.
ProcessExits ==
  /\ proc' = "exited"
  /\ UNCHANGED <<stream, dev, enc, ctl, dm, bufs, clog>>
  /\ fm' = fm

\* C23: the file datamover leaves os.Create either with an encoder created
\* or with the process ended, and leaves enc.Write either with the chunk
\* written or with the process ended; when the process ends the status and
\* the frame of the caller are as they were, the Standby() that started the
\* datamover having returned no error, and no goroutine takes a step
\* afterwards.
C23_TransferErrorsExit ==
  /\ [][proc = "running"]_vars
  /\ [][\A g \in Activations :
          /\ (fm[g].pc = "create" /\ (fm'[g] # fm[g] \/ proc' # proc)) =>
                \/ (proc' = "running" /\ enc'.created = enc.created + 1)
                \/ ProcessExits
          /\ (fm[g].pc = "encode" /\ (fm'[g] # fm[g] \/ proc' # proc)) =>
                \/ (proc' = "running" /\ enc'.written)
                \/ ProcessExits]_vars
  /\ [](proc = "exited" => (Started >= 1 /\ stream.status # statusError))

\* enc.Write has failed while recording: the process is gone with the status
\* still standby.
C23_Witness ==
  /\ proc = "exited"
  /\ \E g \in Activations : fm[g].pc = "encode"
  /\ stream.status = statusStandby
  /\ ctl.pc = "idle" /\ ~ctl.err
\* Bytes in the store that were written and neither handed out by a
\* ReadNoBlock that returned nor given up by an Overflow before the last.
UnreadBeforeOverflow(h, w, r) ==
  Len(Written(h, w)) - r * Len(Delivered(h)) - r * (CountOp(h, "Overflow") - 1)

\* C24: Write is in its overflow branch (read cursor advanced, read permit
\* to be withdrawn) only when the store is full of unread bytes.
C24_OverflowOnlyWhenFull ==
  (wr.pc = "withdraw")
     => UnreadBeforeOverflow(hist, rb.writeSize, rb.readSize) = Len(rb.data)

\* C25: the device datamover never calls Read on the device after Off() has
\* closed it.
C25_NoReadAfterClose == \A d \in Devices : ~dev.hw[d].readClosed

\* C26: a datamover that has received statusOff ends: it sends on its done
\* channel and returns; and a device datamover inside RingBuffer.Write
\* comes out of it.
C26_WorkersExit ==
  \A g \in Activations :
    /\ dm[g].die ~> (dm[g].pc = "exited" \/ proc # "running")
    /\ fm[g].die ~> (fm[g].pc = "exited" \/ proc # "running")
    /\ (dm[g].pc = "write") ~> (dm[g].pc # "write" \/ proc # "running")

\* A goroutine that was started and has not returned.
Alive(w) == w.pc \notin {"none", "exited"}

\* C27: whenever the status is standby and no method is running, the
\* datamovers alive are the two of the current activation.
C27_OnlyCurrentWorkers ==
  (stream.status = statusStandby /\ ctl.pc = "idle" /\ proc = "running")
     => \A g \in Activations :
          /\ Alive(dm[g]) <=> g = Started
          /\ Alive(fm[g]) <=> g = Started

\* C28: whenever no call is in progress, the write permits held are the
\* writeSize chunks written and neither read nor given up.
C28_WritePermitsExact ==
  (CanCall /\ ~Panicked)
     => rb.wSem * rb.writeSize
          = Len(Written(hist, rb.writeSize))
              - rb.readSize * Len(Delivered(hist))
              - rb.readSize * CountOp(hist, "Overflow")

\* C29: whenever no method is running, the device is open exactly when the
\* status is not off.
C29_OpenIffNotOff ==
  (ctl.pc = "idle" /\ proc = "running")
     => (Device.open <=> stream.status # statusOff)

\* C30: the status is off or standby, never recording; Record() leaves it
\* as it found it, and Off() never waits on the done channels as its
\* statusRecording case does.
C30_StatusNeverRecording ==
  /\ [](stream.status \in {statusOff, statusStandby})
  /\ [](ctl.pc \notin {"wait_fm", "wait_dm"})
  /\ [][ctl.op = "Record" /\ ctl'.op = "Record" => stream'.status = stream.status]_vars
  /\ [][clog' = Append(clog, CallEvent("Record")) => stream'.status = stream.status]_vars

\* Record() has returned in standby and both datamovers are armed.
C30_Witness ==
  /\ Len(clog) >= 1
  /\ LastCall = [op |-> "Record", status |-> statusStandby]
  /\ ctl = [op |-> "Record", pc |-> "idle", err |-> FALSE]
  /\ stream.status = statusStandby
  /\ dm[Started].recording /\ fm[Started].recording

\* The datamover is inside the recording part of its default case.
DmTransferring(g) == dm[g].pc \in {"devread", "write"}
FmTransferring(g) == fm[g].pc \in {"read", "encode"}

\* C31: one iteration of a datamover's loop either receives one status, and
\* then touches neither the device, the ring buffer nor the encoder, or,
\* with no status to receive, moves at most one unit: one device read and
\* one Write, or one ReadNoBlock and one enc.Write, after which it is back
\* at the select or at its end.  Data is moved only while recording is
\* true: a datamover that is not recording is never inside a transfer, and
\* every step that reads the device, changes the ring buffer or writes to
\* the encoder is the step of a datamover that is recording.
C31_TransferOnlyWhileArmed ==
  [][\A g \in Activations :
       /\ (dm'[g] # dm[g] /\ stream'.dmStatus # stream.dmStatus) =>
             /\ Len(stream'.dmStatus) = Len(stream.dmStatus) - 1
             /\ dm[g].pc = "select" /\ dm'[g].pc = "select"
             /\ dev' = dev /\ bufs' = bufs /\ enc' = enc
       /\ (fm'[g] # fm[g] /\ stream'.fmStatus # stream.fmStatus) =>
             /\ Len(stream'.fmStatus) = Len(stream.fmStatus) - 1
             /\ fm[g].pc = "select" /\ fm'[g].pc = "select"
             /\ dev' = dev /\ bufs' = bufs /\ enc' = enc
       /\ (dm[g].pc = "select" /\ dm'[g].pc # "select") =>
             /\ stream.dmStatus = <<>>
             /\ dm'[g].pc = (IF dm[g].recording THEN "devread" ELSE "done")
       /\ (fm[g].pc = "select" /\ fm'[g].pc # "select") =>
             /\ stream.fmStatus = <<>>
             /\ fm'[g].pc = (IF fm[g].recording THEN "read" ELSE "done")
       /\ (dm[g].pc = "devread" /\ dm'[g] # dm[g]) =>
             (Reads' = Reads + 1 /\ dm'[g].pc = "write")
       /\ (dm[g].pc = "write" /\ dm'[g].pc # "write") =>
             dm'[g].pc \in {"select", "done"}
       /\ (fm[g].pc = "read" /\ fm'[g].pc # "read") =>
             fm'[g].pc \in {"encode", "select", "done"}
       /\ (fm[g].pc = "encode" /\ fm'[g].pc # "encode") =>
             fm'[g].pc \in {"select", "done"}
       /\ DmTransferring(g)' => dm'[g].recording
       /\ FmTransferring(g)' => fm'[g].recording
       /\ (dm'[g] # dm[g] /\ (Reads' # Reads \/ bufs'[g] # bufs[g])) =>
             dm[g].recording
       /\ (fm'[g] # fm[g] /\ (bufs'[g] # bufs[g] \/ enc'.written # enc.written)) =>
             fm[g].recording]_vars

\* Both datamovers have moved data while recording and are now, after a
\* Standby(), at their select and not recording.
C31_Witness ==
  /\ proc = "running"
  /\ Reads >= 1 /\ enc.written
  /\ dm[1].pc = "select" /\ ~dm[1].recording /\ ~dm[1].die
  /\ fm[1].pc = "select" /\ ~fm[1].recording /\ ~fm[1].die

\* C32: a datamover that receives statusOff leaves the receive with
\* recording false and die true; from then on it moves no more data: it is
\* never again inside a transfer, it sends once on its done channel and
\* returns, and the file datamover has closed its encoder when it sends.
C32_TerminateThenExit ==
  [][\A g \in Activations :
       /\ (dm[g].pc = "select" /\ dm'[g] # dm[g]
             /\ stream.dmStatus # <<>> /\ Head(stream.dmStatus) = statusOff) =>
             (~dm'[g].recording /\ dm'[g].die)
       /\ (fm[g].pc = "select" /\ fm'[g] # fm[g]
             /\ stream.fmStatus # <<>> /\ Head(stream.fmStatus) = statusOff) =>
             (~fm'[g].recording /\ fm'[g].die)
       /\ dm[g].die => (dm'[g].die /\ ~DmTransferring(g)')
       /\ fm[g].die => (fm'[g].die /\ ~FmTransferring(g)')
       /\ (dm'[g].pc = "exited" /\ dm[g].pc # "exited") =>
             (dm[g].die /\ stream'.dmDone = stream.dmDone + 1)
       /\ (fm'[g].pc = "exited" /\ fm[g].pc # "exited") =>
             (fm[g].die /\ stream'.fmDone = stream.fmDone + 1)
       /\ (dm'[g] # dm[g] /\ stream'.dmDone > stream.dmDone) =>
             dm'[g].pc = "exited"
       /\ (fm'[g] # fm[g] /\ stream'.fmDone > stream.fmDone) =>
             (fm'[g].pc = "exited" /\ fm[g].pc = "senddone")
       /\ (fm'[g].pc = "senddone" /\ fm[g].pc # "senddone") =>
             enc'.closed = enc.closed + 1
       /\ dm[g].pc = "exited" => dm'[g] = dm[g]
       /\ fm[g].pc = "exited" => fm'[g] = fm[g]]_vars

\* The first n calls of the lifecycle were made, the first one a Standby()
\* that started the device, and the last of them has returned.
LifecycleReturned(n) ==
  /\ CallOps = SubSeq(Lifecycle, 1, n)
  /\ clog[1].status = statusOff
  /\ clog[2].status = statusStandby
  /\ Returned

\* C33: with the datamovers scheduled fairly, once Record() called in
\* standby has returned and no other method is called, both datamovers get
\* to recording = true; and once the Standby() called after it has returned
\* and no other method is called, both get to recording = false.
C33_ArmThenDisarm ==
  /\ LifecycleReturned(2) ~>
        \/ (dm[1].recording /\ fm[1].recording)
        \/ ~LifecycleReturned(2)
  /\ LifecycleReturned(3) ~>
        \/ (~dm[1].recording /\ ~fm[1].recording)
        \/ ~LifecycleReturned(3)

\* The consumer is copying the read chunk that holds the write cursor while
\* that chunk is not complete: the producer is inside its copy or padding
\* loop, or has stopped short of the end of the chunk.
TornCopy(b, w, r) ==
  /\ r.pc \in {"copy", "release"} /\ r.i < b.readSize
  /\ (w.pc \in {"copy", "pad"} \/ b.writeIdx % b.readSize # 0)
  /\ (b.readIdx - r.i) \div b.readSize = b.writeIdx \div b.readSize

\* One producer and one consumer on buffer b, nw Write and nr ReadNoBlock
\* calls made so far.
ConcState(b) ==
  [rb |-> b, wr |-> IdleWriter, rd |-> IdleReader, nw |-> 0, nr |-> 0]

\* The states one step of the producer or of the consumer leads to: a call
\* of Write, a step of Write, a call of ReadNoBlock, a step of ReadNoBlock.
ConcSucc(s) ==
  IF s.wr.pc = "panic" \/ s.rd.pc = "panic" THEN {}
  ELSE
    (IF s.wr.pc = "idle" /\ s.nw < MaxConcWrites
     THEN {[s EXCEPT !.wr = WriteCall([i \in 1..len |-> 1]), !.nw = @ + 1] :
              len \in InputLens(s.rb.writeSize)}
     ELSE {})
    \cup
    (IF WriteEnabled(s.rb, s.wr)
     THEN {LET t == WriteStep(s.rb, s.wr) IN [s EXCEPT !.rb = t.rb, !.wr = t.fr]}
     ELSE {})
    \cup
    (IF s.rd.pc = "idle" /\ s.nr < MaxConcReads
     THEN {[s EXCEPT !.rd = ReadCall(s.rb), !.nr = @ + 1]}
     ELSE {})
    \cup
    (IF ReadEnabled(s.rb, s.rd)
     THEN {LET t == ReadStep(s.rb, s.rd) IN [s EXCEPT !.rb = t.rb, !.rd = t.fr]}
     ELSE {})

\* Every state the interleavings of the two goroutines lead to.
RECURSIVE ConcReach(_, _)
ConcReach(seen, frontier) ==
  IF frontier = {} THEN seen
  ELSE LET next == (UNION {ConcSucc(s) : s \in frontier}) \ seen
       IN ConcReach(seen \cup next, next)

\* C34 as stated: from a new ring buffer, one producer and one consumer
\* running concurrently can get to a state where the consumer copies a
\* byte of a chunk whose write has not completed, or the producer stores a
\* byte into the chunk the consumer has not finished copying.
C34_TornCopyReachable ==
  (hist = <<>> /\ wr = IdleWriter /\ rd = IdleReader) =>
     \E s \in ConcReach({ConcState(rb)}, {ConcState(rb)}) :
        TornCopy(s.rb, s.wr, s.rd)

\* C34, amended: Write copies its bytes without holding rLock and
\* ReadNoBlock copies with rLock held, so the two copy loops run at the same
\* time; but the consumer never copies a byte of a chunk whose write has
\* not completed and the producer never stores into the chunk the consumer
\* is copying.
C34_NoTornCopy ==
  /\ ~TornCopy(rb, wr, rd)
  /\ wr.pc \in {"copy", "pad"} => rb.rLock # "writer"
  /\ rd.pc \in {"copy", "release", "finish"} => rb.rLock = "reader"

\* The producer is inside its copy loop while the consumer, holding rLock,
\* is half way through a chunk.
C34_Witness ==
  /\ wr.pc = "copy"
  /\ rd.pc = "copy" /\ rd.i >= 1 /\ rd.i < rb.readSize
  /\ rb.rLock = "reader"

\* Read chunks completed by the Write calls so far.
ChunksWritten(h, b) == Len(Written(h, b.writeSize)) \div b.readSize

\* C35: with one caller, whenever no call is in progress the read permits
\* queued in rSem are the read chunks completed by the writes, less those
\* handed out by ReadNoBlock and those given up by an overflow; and a Write
\* that returns has added one permit exactly when it took the write cursor
\* to a multiple of readSize (and withdrawn one when it overflowed).
C35_ReadPermitsExact ==
  [][(CanCall /\ CanCall' /\ ~Panicked') =>
       /\ rb'.rSem = ChunksWritten(hist', rb') - Len(Delivered(hist'))
                        - CountOp(hist', "Overflow")
       /\ (CountOp(hist', "Write") > CountOp(hist, "Write")) =>
             rb'.rSem = rb.rSem
                + (IF Len(Written(hist', rb.writeSize)) % rb.readSize = 0 THEN 1 ELSE 0)
                - (IF wr'.ovf THEN 1 ELSE 0)]_vars

\* After an overflow and a read, two more writes have completed a chunk:
\* its permit is queued.
C35_Witness ==
  /\ CanCall
  /\ CountOp(hist, "Overflow") >= 1
  /\ Len(Delivered(hist)) >= 1
  /\ rb.rSem >= 1
  /\ rb.writeIdx # 0

\* A step that is a call of ReadNoBlock by the single caller.
IsReadCall ==
  rd' # rd \/ CountOp(hist', "Read") > CountOp(hist, "Read")

\* C36: a ReadNoBlock that finds a read permit returns true with readSize
\* bytes, the bytes of the store from the read cursor on; it leaves the
\* read cursor readSize further, 0 when that is the end of the store, and
\* has taken readSize / writeSize elements out of wSem and one out of rSem.
C36_ReadReturnsChunk ==
  [][(IsReadCall /\ rb.rSem > 0) =>
       /\ rd'.pc = "idle" /\ rd'.ok
       /\ Len(rd'.buff) = rb.readSize
       /\ \A i \in 1..rb.readSize :
             /\ rb.readIdx + i <= Len(rb.data)
             /\ rd'.buff[i] = rb.data[rb.readIdx + i]
       /\ rb'.readIdx = (rb.readIdx + rb.readSize) % Len(rb.data)
       /\ rb'.wSem = rb.wSem - rb.readSize \div rb.writeSize
       /\ rb'.rSem = rb.rSem - 1
       /\ rb'.data = rb.data /\ rb'.writeIdx = rb.writeIdx]_vars

\* A step that is a call of Write by the single caller.
IsWriteCall == CountOp(hist', "Write") > CountOp(hist, "Write")

\* C37: a Write that gets its write permit returns having stored writeSize
\* bytes from the write cursor on: the first writeSize bytes of its
\* argument, or all of them followed by zeros when there are fewer; every
\* other byte of the store is as before, and the write cursor is writeSize
\* further, 0 when that is the end of the store.  This holds for arguments
\* shorter than, as long as and longer than writeSize.
C37_WriteStoresChunk ==
  [][(IsWriteCall /\ rb.wSem < rb.wCap) =>
       LET buff == hist'[Len(hist) + 1].buff
       IN /\ wr'.pc = "idle"
          /\ \A k \in 1..Len(rb.data) :
                rb'.data[k] =
                  IF k > rb.writeIdx /\ k <= rb.writeIdx + rb.writeSize
                  THEN (IF k - rb.writeIdx <= Len(buff)
                        THEN buff[k - rb.writeIdx] ELSE 0)
                  ELSE rb.data[k]
          /\ rb'.writeIdx = (rb.writeIdx + rb.writeSize) % Len(rb.data)
          /\ rb'.wSem = rb.wSem + 1]_vars

\* A Write of one byte with writeSize 2 has filled the end of the store
\* with the byte and a zero and wrapped the write cursor.
C37_Witness ==
  /\ CanCall
  /\ rb.writeSize = 2 /\ Len(wr.buff) = 1
  /\ rb.writeIdx = 0
  /\ rb.data[Len(rb.data) - 1] = wr.buff[1] /\ rb.data[Len(rb.data)] = 0

\* Bytes of the Write in progress that are not in the store yet.
NotYetStored(b, w) ==
  CASE w.pc = "acquire" -> b.writeSize
    [] w.pc = "copy"    -> b.writeSize - w.i
    [] w.pc = "pad"     -> b.writeSize - Len(w.buff) - w.i
    [] OTHER            -> 0

\* Bytes the ReadNoBlock in progress has copied out of the store.
AlreadyCopied(r) ==
  IF r.pc \in {"copy", "release", "finish"} THEN r.i ELSE 0

\* Bytes stored and neither copied out by ReadNoBlock nor given up by an
\* overflow.
Unread(h, b, w, r) ==
  Len(Written(h, b.writeSize)) - NotYetStored(b, w)
    - b.readSize * Len(Delivered(h)) - AlreadyCopied(r)
    - b.readSize * CountOp(h, "Overflow")

\* C38: in every state of a ring buffer used by one producer and one
\* consumer, rSem holds at most DataSize / ReadSize elements, wSem at most
\* DataSize / WriteSize, and the bytes stored and neither read nor given up
\* are at most DataSize.
C38_PermitsAndBytesBounded ==
  /\ rb.rSem <= Len(rb.data) \div rb.readSize
  /\ rb.wSem <= Len(rb.data) \div rb.writeSize
  /\ Unread(hist, rb, wr, rd) <= Len(rb.data)

\* The store is full: every byte is unread and both channels are full, the
\* producer being about to compare the cursors.
C38_Witness ==
  /\ wr.pc = "lock"
  /\ rb.rSem = Len(rb.data) \div rb.readSize
  /\ rb.wSem = Len(rb.data) \div rb.writeSize
  /\ Unread(hist, rb, wr, rd) = Len(rb.data)

\* C39: when SetDevice(device, config) called in off has returned no error,
\* the deviceConfig of the stream is config; and when the Standby() called
\* next has started the device, the channels, rate, format and buffer size
\* negotiated with it are those of config.  Every config handed to
\* SetDevice is one of Configs.
C39_ConfigStoredAndNegotiated ==
  /\ (/\ Len(clog) >= 1
      /\ LastCall = [op |-> "SetDevice", status |-> statusOff]
      /\ ctl.op = "SetDevice" /\ ~ctl.err)
        => stream.deviceConfig \in Configs
  /\ (/\ Len(clog) >= 2
      /\ CallBeforeLast = [op |-> "SetDevice", status |-> statusOff]
      /\ LastCall = [op |-> "Standby", status |-> statusOff]
      /\ ctl.op = "Standby" /\ ~ctl.err /\ proc = "running")
        => Device.negotiated \in Configs
====
